---- MODULE Spec2Model ----
(***************************************************************************)
(* Stock-and-money consistency engine of the Sales application:            *)
(* Product.current_stock, the StockEntry ledger, Sale supply tracking,     *)
(* Invoice payments and LPO deliveries (models.py, views.py,               *)
(* serializers.py).                                                        *)
(*                                                                         *)
(* A request handler is a sequence of database accesses.  The source opens *)
(* no transaction and takes no row lock, so every ORM call (get_object,    *)
(* save, create) is one atomic step on the datastore and the Python code   *)
(* between two calls works on the handler's own in-memory copies.  Each    *)
(* action below is one such step of one worker.                            *)
(***************************************************************************)
EXTENDS Integers, Sequences, FiniteSets, TLC

(***************************************************************************)
(* Bounds of the model.                                                    *)
(***************************************************************************)
MaxQty == 2          \* largest quantity / amount a request carries
MaxOps == 2          \* requests handled in one sequential behaviour
MaxConcurrentOps == 2  \* requests handled in one concurrent behaviour
MaxCrashOps == 2     \* requests handled in one behaviour with dying requests
MaxSales == 3        \* Sale rows
MaxInvoices == 2     \* Invoice rows
MaxItems == 1        \* items_data entries of one createInvoice request
MaxDay == 2          \* last calendar day
OpeningStock == 2    \* current_stock of the product when the behaviour starts
OrderedQty == 2      \* quantity_ordered, ordered_quantity and total_amount of the rows

Workers == {1, 2}
Products == {"p1"}

SupplyStatuses == {"Supplied", "Partially Supplied", "Not Supplied"}
NoStatus == ""
EntryTypes == {"In", "Out", "Adjustment"}
InvoiceStatuses == {"Outstanding", "Partial", "Paid"}
LpoStatuses == {"Pending", "Partial", "Completed", "Cancelled"}
NoDate == 0

(***************************************************************************)
(* Request inputs.  The handlers read them from request.data without any   *)
(* range validation.                                                       *)
(***************************************************************************)
SupplyQtys == -1 .. MaxQty
SaleOrderedQtys == {OrderedQty}
SaleSuppliedQtys == 0 .. MaxQty
AdjustQtys == {0, MaxQty}
DeliveryQtys == {-1, 1, MaxQty}
Amounts == {0, 1, MaxQty}
InitialPaid == {0, 1}
\* status sent with createInvoice: the field default or a caller's own choice
CreateStatuses == {"Outstanding", "Paid"}
\* paid_amount and status sent with createInvoice: a caller's own status with
\* the default amount, or a caller's own amount with the default status
CreateChoices ==
    { c \in [paid : InitialPaid, status : CreateStatuses] :
          c.paid = 0 <=> c.status = "Paid" }

ItemChoices ==
    { [quantity |-> 1, unit_price |-> 2, subtotal |-> 2],
      [quantity |-> 1, unit_price |-> 2, subtotal |-> 3],
      [quantity |-> 0, unit_price |-> 2, subtotal |-> 0],
      [quantity |-> 1, unit_price |-> 0, subtotal |-> 0] }

ItemLists == UNION { [1 .. n -> ItemChoices] : n \in 0 .. MaxItems }

VARIABLES
    stock,       \* Product.current_stock, by product
    ledger,      \* StockEntry rows, in creation order
    sales,       \* Sale rows, by pk
    lpos,        \* LPO rows, by pk
    invoices,    \* Invoice rows, by pk
    payments,    \* Payment rows, in creation order
    items,       \* InvoiceItem rows, in creation order
    today,       \* timezone.now().date()
    pc,          \* each worker's position in its handler
    req,         \* each worker's request
    obj,         \* each worker's in-memory model instances
    pre,         \* the datastore as it was when the worker's request began
    res,         \* each worker's response
    delta,       \* sum of the changes the request made to its copy of current_stock and saved
    nOps         \* requests begun

db == <<stock, ledger, sales, lpos, invoices, payments, items>>
vars == <<stock, ledger, sales, lpos, invoices, payments, items, today,
          pc, req, obj, pre, res, delta, nOps>>

Snapshot ==
    [stock |-> stock, ledger |-> ledger, sales |-> sales, lpos |-> lpos,
     invoices |-> invoices, payments |-> payments, items |-> items]

NullSale == [product |-> "p1", quantity_ordered |-> 0, quantity_supplied |-> 0,
             supply_status |-> "Not Supplied"]
NullLpo == [product |-> "p1", ordered_quantity |-> 0, delivered_quantity |-> 0,
            status |-> "Pending", actual_delivery |-> NoDate]
NullInvoice == [total_amount |-> 0, paid_amount |-> 0, status |-> "Outstanding",
                initial_paid |-> 0]

NullReq == [op |-> "none", product |-> "p1", id |-> 0, qty |-> 0, ordered |-> 0,
            status |-> NoStatus, etype |-> "Adjustment", amount |-> 0, total |-> 0,
            items |-> << >>]
NullObj == [stock |-> 0, sale |-> NullSale, old_supplied |-> 0, lpo |-> NullLpo,
            invoice |-> NullInvoice, id |-> 0, n |-> 0]
NullSnapshot ==
    [stock |-> [p \in Products |-> 0], ledger |-> << >>, sales |-> << >>,
     lpos |-> << >>, invoices |-> << >>, payments |-> << >>, items |-> << >>]

StockEntry(p, t, q, n, s) ==
    [product |-> p, entry_type |-> t, quantity |-> q, notes |-> n, sale |-> s]
Payment(i, a) == [invoice |-> i, amount |-> a]
InvoiceItem(i, it) ==
    [invoice |-> i, quantity |-> it.quantity, unit_price |-> it.unit_price,
     subtotal |-> it.subtotal]

(***************************************************************************)
(* The rows that exist when the behaviour starts: one product with its     *)
(* opening stock, two sales created as Not Supplied, one pending LPO and   *)
(* one outstanding invoice, each with the field defaults of models.py.     *)
(***************************************************************************)
Init ==
    /\ stock = [p \in Products |-> OpeningStock]
    /\ ledger = << >>
    /\ sales = << [product |-> "p1", quantity_ordered |-> OrderedQty,
                   quantity_supplied |-> 0, supply_status |-> "Not Supplied"],
                  [product |-> "p1", quantity_ordered |-> 1,
                   quantity_supplied |-> 0, supply_status |-> "Not Supplied"] >>
    /\ lpos = << [product |-> "p1", ordered_quantity |-> OrderedQty,
                  delivered_quantity |-> 0, status |-> "Pending",
                  actual_delivery |-> NoDate] >>
    /\ invoices = << [total_amount |-> OrderedQty, paid_amount |-> 0,
                      status |-> "Outstanding", initial_paid |-> 0] >>
    /\ payments = << >>
    /\ items = << >>
    /\ today = 1
    /\ pc = [w \in Workers |-> "idle"]
    /\ req = [w \in Workers |-> NullReq]
    /\ obj = [w \in Workers |-> NullObj]
    /\ pre = [w \in Workers |-> NullSnapshot]
    /\ res = [w \in Workers |-> "none"]
    /\ delta = [w \in Workers |-> 0]
    /\ nOps = 0

(***************************************************************************)
(* A worker takes a request: common bookkeeping of every Start action.     *)
(***************************************************************************)
Begin(w, r, o, next) ==
    /\ pc[w] = "idle"
    /\ nOps' = nOps + 1
    /\ req' = [req EXCEPT ![w] = r]
    /\ obj' = [obj EXCEPT ![w] = o]
    /\ pre' = [pre EXCEPT ![w] = Snapshot]
    /\ res' = [res EXCEPT ![w] = "none"]
    /\ delta' = [delta EXCEPT ![w] = 0]
    /\ pc' = [pc EXCEPT ![w] = next]
    /\ UNCHANGED today

Respond(w, r) ==
    /\ pc' = [pc EXCEPT ![w] = "done"]
    /\ res' = [res EXCEPT ![w] = r]

Goto(w, next) ==
    /\ pc' = [pc EXCEPT ![w] = next]
    /\ UNCHANGED res

(***************************************************************************)
(* adjust_stock (ProductViewSet)                                           *)
(***************************************************************************)
\* defective variant: an Adjustment adds the quantity
AdjustedStock_AdjustmentAdds(current_stock, quantity, entry_type) ==
    IF entry_type = "Out" THEN current_stock - quantity ELSE current_stock + quantity

AdjustedStock(current_stock, quantity, entry_type) ==
    IF entry_type = "In" THEN current_stock + quantity
    ELSE IF entry_type = "Out" THEN current_stock - quantity
    ELSE current_stock

StartAdjustStock(w, p, q, t) ==
    /\ Begin(w, [NullReq EXCEPT !.op = "adjust_stock", !.product = p, !.qty = q,
                                !.etype = t],
                [NullObj EXCEPT !.stock = stock[p]], "adj_save")
    /\ UNCHANGED db

AdjSaveProduct(w) ==
    /\ pc[w] = "adj_save"
    /\ LET new == AdjustedStock(obj[w].stock, req[w].qty, req[w].etype) IN
         /\ stock' = [stock EXCEPT ![req[w].product] = new]
         /\ delta' = [delta EXCEPT ![w] = @ + (new - obj[w].stock)]
         /\ obj' = [obj EXCEPT ![w].stock = new]
    /\ Goto(w, "adj_log")
    /\ UNCHANGED <<ledger, sales, lpos, invoices, payments, items, today, req, pre, nOps>>

\* defective variant: logging the entry replaces the ledger
AdjLog_Rewrites(w) ==
    /\ pc[w] = "adj_log"
    /\ ledger' = << StockEntry(req[w].product, req[w].etype, req[w].qty, "manual", 0) >>
    /\ Respond(w, "ok")
    /\ UNCHANGED <<stock, sales, lpos, invoices, payments, items, today, req, obj, pre,
                   delta, nOps>>

AdjLog(w) ==
    /\ pc[w] = "adj_log"
    /\ ledger' = Append(ledger, StockEntry(req[w].product, req[w].etype, req[w].qty,
                                           "manual", 0))
    /\ Respond(w, "ok")
    /\ UNCHANGED <<stock, sales, lpos, invoices, payments, items, today, req, obj, pre,
                   delta, nOps>>

(***************************************************************************)
(* record_payment (InvoiceViewSet)                                         *)
(***************************************************************************)
\* defective variant: the amount replaces paid_amount instead of being added
PaidAfter_Overwrite(paid_amount, amount) == amount

PaidAfter(paid_amount, amount) == paid_amount + amount

\* defective variant: an overpaid invoice is not Paid
NewInvoiceStatus_ExactOnly(paid_amount, total_amount) ==
    IF paid_amount = total_amount THEN "Paid" ELSE "Partial"

NewInvoiceStatus(paid_amount, total_amount) ==
    IF paid_amount >= total_amount THEN "Paid" ELSE "Partial"

remaining_balance(inv) == inv.total_amount - inv.paid_amount

StartRecordPayment(w, i, a) ==
    /\ i \in 1 .. Len(invoices)
    /\ Begin(w, [NullReq EXCEPT !.op = "record_payment", !.id = i, !.amount = a],
                [NullObj EXCEPT !.invoice = invoices[i]], "pay_create")
    /\ UNCHANGED db

PayCreate(w) ==
    /\ pc[w] = "pay_create"
    /\ payments' = Append(payments, Payment(req[w].id, req[w].amount))
    /\ Goto(w, "pay_save")
    /\ UNCHANGED <<stock, ledger, sales, lpos, invoices, items, today, req, obj, pre,
                   delta, nOps>>

\* defective variant: the save writes the paid amount and status to every invoice
PaySaveInvoice_AllRows(w) ==
    /\ pc[w] = "pay_save"
    /\ LET paid == PaidAfter(obj[w].invoice.paid_amount, req[w].amount)
           inv == [obj[w].invoice EXCEPT
                     !.paid_amount = paid,
                     !.status = NewInvoiceStatus(paid, obj[w].invoice.total_amount)]
       IN /\ invoices' = [i \in 1 .. Len(invoices) |->
                             [invoices[i] EXCEPT !.paid_amount = inv.paid_amount,
                                                 !.status = inv.status]]
          /\ obj' = [obj EXCEPT ![w].invoice = inv]
    /\ Respond(w, "ok")
    /\ UNCHANGED <<stock, ledger, sales, lpos, payments, items, today, req, pre, delta,
                   nOps>>

\* defective variant: the save writes back the whole datastore as the request
\* found it, with the invoice updated
PaySaveInvoice_StaleTables(w) ==
    /\ pc[w] = "pay_save"
    /\ LET paid == PaidAfter(obj[w].invoice.paid_amount, req[w].amount)
           inv == [obj[w].invoice EXCEPT
                     !.paid_amount = paid,
                     !.status = NewInvoiceStatus(paid, obj[w].invoice.total_amount)]
       IN /\ invoices' = [pre[w].invoices EXCEPT ![req[w].id] = inv]
          /\ lpos' = pre[w].lpos
          /\ stock' = pre[w].stock
          /\ obj' = [obj EXCEPT ![w].invoice = inv]
    /\ Respond(w, "ok")
    /\ UNCHANGED <<ledger, sales, payments, items, today, req, pre, delta, nOps>>

PaySaveInvoice(w) ==
    /\ pc[w] = "pay_save"
    /\ LET paid == PaidAfter(obj[w].invoice.paid_amount, req[w].amount)
           inv == [obj[w].invoice EXCEPT
                     !.paid_amount = paid,
                     !.status = NewInvoiceStatus(paid, obj[w].invoice.total_amount)]
       IN /\ invoices' = [invoices EXCEPT ![req[w].id] = inv]
          /\ obj' = [obj EXCEPT ![w].invoice = inv]
    /\ Respond(w, "ok")
    /\ UNCHANGED <<stock, ledger, sales, lpos, payments, items, today, req, pre, delta,
                   nOps>>

(***************************************************************************)
(* update_delivery (LPOViewSet)                                            *)
(***************************************************************************)
\* defective variant: an exactly fulfilled order is not Completed
NewLpoStatus_Strict(delivered_quantity, ordered_quantity) ==
    IF delivered_quantity > ordered_quantity THEN "Completed" ELSE "Partial"

\* defective variant: an over-delivered order is not Completed
NewLpoStatus_ExactOnly(delivered_quantity, ordered_quantity) ==
    IF delivered_quantity = ordered_quantity THEN "Completed" ELSE "Partial"

NewLpoStatus(delivered_quantity, ordered_quantity) ==
    IF delivered_quantity >= ordered_quantity THEN "Completed" ELSE "Partial"

NewActualDelivery(new_status, actual_delivery, now) ==
    IF new_status = "Completed" THEN now ELSE actual_delivery

StartUpdateDelivery(w, l, q) ==
    /\ l \in 1 .. Len(lpos)
    /\ Begin(w, [NullReq EXCEPT !.op = "update_delivery", !.id = l, !.qty = q,
                                !.product = lpos[l].product],
                [NullObj EXCEPT !.lpo = lpos[l], !.stock = stock[lpos[l].product]],
                "dlv_save_lpo")
    /\ UNCHANGED db

DlvSaveLpo(w) ==
    /\ pc[w] = "dlv_save_lpo"
    /\ LET delivered == obj[w].lpo.delivered_quantity + req[w].qty
           st == NewLpoStatus(delivered, obj[w].lpo.ordered_quantity)
           lpo == [obj[w].lpo EXCEPT
                     !.delivered_quantity = delivered,
                     !.status = st,
                     !.actual_delivery = NewActualDelivery(st, @, today)]
       IN /\ lpos' = [lpos EXCEPT ![req[w].id] = lpo]
          /\ obj' = [obj EXCEPT ![w].lpo = lpo]
    /\ Goto(w, "dlv_save_product")
    /\ UNCHANGED <<stock, ledger, sales, invoices, payments, items, today, req, pre, delta,
                   nOps>>

DlvSaveProduct(w) ==
    /\ pc[w] = "dlv_save_product"
    /\ LET new == obj[w].stock + req[w].qty IN
         /\ stock' = [stock EXCEPT ![req[w].product] = new]
         /\ delta' = [delta EXCEPT ![w] = @ + req[w].qty]
         /\ obj' = [obj EXCEPT ![w].stock = new]
    /\ Respond(w, "ok")
    /\ UNCHANGED <<ledger, sales, lpos, invoices, payments, items, today, req, pre, nOps>>

(***************************************************************************)
(* Sale.save (models.py): the save hook shared by sale creation and        *)
(* update_supply.                                                          *)
(***************************************************************************)
\* defective variant: a Supplied sale keeps the caller's quantity_supplied
SavedSupplied_KeepsCaller(supply_status, quantity_ordered, quantity_supplied) ==
    IF supply_status = "Not Supplied" THEN 0 ELSE quantity_supplied

\* defective variant: a Not Supplied sale keeps the caller's quantity_supplied
SavedSupplied_KeepsNotSupplied(supply_status, quantity_ordered, quantity_supplied) ==
    IF supply_status = "Supplied" THEN quantity_ordered ELSE quantity_supplied

\* quantity_supplied as the hook leaves it on the instance
SavedSupplied(supply_status, quantity_ordered, quantity_supplied) ==
    IF supply_status = "Supplied" THEN quantity_ordered
    ELSE IF supply_status = "Not Supplied" THEN 0
    ELSE quantity_supplied

\* defective variant: a new Partially Supplied sale takes nothing off the stock
NewSaleDeduction_SuppliedOnly(supply_status, quantity_supplied) ==
    IF supply_status = "Supplied" /\ quantity_supplied > 0 THEN quantity_supplied ELSE 0

\* what the hook takes off current_stock for a new sale (pk is None)
NewSaleDeduction(supply_status, quantity_supplied) ==
    IF supply_status \in {"Supplied", "Partially Supplied"} /\ quantity_supplied > 0
    THEN quantity_supplied
    ELSE 0

\* the hook re-reads the stored row of an existing sale
HookReadsOld(supply_status, quantity_supplied) ==
    supply_status = "Partially Supplied" /\ quantity_supplied > 0

\* what the hook takes off current_stock for an existing sale
HookDeduction(quantity_supplied, old_supplied) ==
    IF quantity_supplied - old_supplied > 0
    THEN quantity_supplied - old_supplied
    ELSE 0

\* defective variant: every new sale is logged
LogsNewSale_Always(supply_status, quantity_supplied) == TRUE

\* the hook logs a StockEntry after the row is written (new sales only)
LogsNewSale(supply_status, quantity_supplied) ==
    supply_status \in {"Supplied", "Partially Supplied"} /\ quantity_supplied > 0

(***************************************************************************)
(* Sale creation (SaleViewSet.create -> Sale.save)                         *)
(***************************************************************************)
StartCreateSale(w, p, qo, qs, st) ==
    /\ Len(sales) < MaxSales
    /\ Begin(w, [NullReq EXCEPT !.op = "create_sale", !.product = p, !.ordered = qo,
                                !.qty = qs, !.status = st],
                [NullObj EXCEPT
                   !.stock = stock[p],
                   !.sale = [product |-> p, quantity_ordered |-> qo,
                             quantity_supplied |-> SavedSupplied(st, qo, qs),
                             supply_status |-> st]],
                "new_hook")
    /\ UNCHANGED db

NewSaveProduct(w) ==
    /\ pc[w] = "new_hook"
    /\ LET d == NewSaleDeduction(obj[w].sale.supply_status, obj[w].sale.quantity_supplied)
           new == obj[w].stock - d
       IN /\ d > 0
          /\ stock' = [stock EXCEPT ![req[w].product] = new]
          /\ delta' = [delta EXCEPT ![w] = @ - d]
          /\ obj' = [obj EXCEPT ![w].stock = new]
    /\ Goto(w, "new_insert")
    /\ UNCHANGED <<ledger, sales, lpos, invoices, payments, items, today, req, pre, nOps>>

NewInsert(w) ==
    /\ \/ pc[w] = "new_insert"
       \/ /\ pc[w] = "new_hook"
          /\ NewSaleDeduction(obj[w].sale.supply_status,
                              obj[w].sale.quantity_supplied) = 0
    /\ sales' = Append(sales, obj[w].sale)
    /\ obj' = [obj EXCEPT ![w].id = Len(sales) + 1]
    /\ IF LogsNewSale(obj[w].sale.supply_status, obj[w].sale.quantity_supplied)
       THEN Goto(w, "new_log")
       ELSE Respond(w, "ok")
    /\ UNCHANGED <<stock, ledger, lpos, invoices, payments, items, today, req, pre, delta,
                   nOps>>

NewLog(w) ==
    /\ pc[w] = "new_log"
    /\ ledger' = Append(ledger, StockEntry(req[w].product, "Out",
                                           obj[w].sale.quantity_supplied, "Sale #",
                                           obj[w].id))
    /\ Respond(w, "ok")
    /\ UNCHANGED <<stock, sales, lpos, invoices, payments, items, today, req, obj, pre,
                   delta, nOps>>

(***************************************************************************)
(* update_supply (SaleViewSet)                                             *)
(***************************************************************************)
SupplyDiff(new_quantity, old_supplied) == new_quantity - old_supplied

\* defective variant: the stock is adjusted whatever the new status
TouchesStock_AnyStatus(diff, new_status) == diff # 0

TouchesStock(diff, new_status) ==
    diff # 0 /\ new_status \in {"Supplied", "Partially Supplied"}

\* defective variant: the check is off by one
InsufficientStock_OffByOne(current_stock, diff) == current_stock + 1 < diff

InsufficientStock(current_stock, diff) == current_stock < diff

\* defective variant: a partial supply is stored as a full one
RequestedSupplied_AlwaysOrdered(new_quantity, new_status, quantity_ordered) ==
    IF new_status = "Not Supplied" THEN 0 ELSE quantity_ordered

RequestedSupplied(new_quantity, new_status, quantity_ordered) ==
    IF new_status = "Partially Supplied" THEN new_quantity
    ELSE IF new_status = "Supplied" THEN quantity_ordered
    ELSE 0

\* diff of worker w's update_supply request, from the sale it loaded
Diff(w) == SupplyDiff(req[w].qty, pre[w].sales[req[w].id].quantity_supplied)

StartUpdateSupply(w, s, q, st) ==
    /\ s \in 1 .. Len(sales)
    /\ Begin(w, [NullReq EXCEPT !.op = "update_supply", !.id = s, !.qty = q,
                                !.status = st, !.product = sales[s].product],
                [NullObj EXCEPT !.sale = sales[s], !.stock = stock[sales[s].product]],
                "sup_check")
    /\ UNCHANGED db

SupReject(w) ==
    /\ pc[w] = "sup_check"
    /\ \/ /\ req[w].status = NoStatus
          /\ Respond(w, "validation")
       \/ /\ req[w].status # NoStatus
          /\ TouchesStock(Diff(w), req[w].status)
          /\ InsufficientStock(obj[w].stock, Diff(w))
          /\ Respond(w, "insufficient")
    /\ UNCHANGED <<db, today, req, obj, pre, delta, nOps>>

SupSaveProduct(w) ==
    /\ pc[w] = "sup_check"
    /\ req[w].status # NoStatus
    /\ TouchesStock(Diff(w), req[w].status)
    /\ ~InsufficientStock(obj[w].stock, Diff(w))
    /\ LET new == obj[w].stock - Diff(w) IN
         /\ stock' = [stock EXCEPT ![req[w].product] = new]
         /\ delta' = [delta EXCEPT ![w] = @ - Diff(w)]
         /\ obj' = [obj EXCEPT ![w].stock = new]
    /\ Goto(w, "sup_log")
    /\ UNCHANGED <<ledger, sales, lpos, invoices, payments, items, today, req, pre, nOps>>

\* the assignments of the view to the sale instance, before sale.save()
Assigned(w) ==
    [obj[w].sale EXCEPT
       !.quantity_supplied = RequestedSupplied(req[w].qty, req[w].status,
                                               obj[w].sale.quantity_ordered),
       !.supply_status = req[w].status]

SupLog(w) ==
    /\ pc[w] = "sup_log"
    /\ ledger' = Append(ledger, StockEntry(req[w].product, "Out", Diff(w),
                                           "Supply update for Sale #", req[w].id))
    /\ obj' = [obj EXCEPT ![w].sale = Assigned(w)]
    /\ Goto(w, "sup_hook")
    /\ UNCHANGED <<stock, sales, lpos, invoices, payments, items, today, req, pre, delta,
                   nOps>>

\* defective variant: a request without supply_status is carried out
SupAssign_NoStatusCheck(w) ==
    /\ pc[w] = "sup_check"
    /\ ~TouchesStock(Diff(w), req[w].status)
    /\ obj' = [obj EXCEPT ![w].sale = Assigned(w)]
    /\ Goto(w, "sup_hook")
    /\ UNCHANGED <<db, today, req, pre, delta, nOps>>

SupAssign(w) ==
    /\ pc[w] = "sup_check"
    /\ req[w].status # NoStatus
    /\ ~TouchesStock(Diff(w), req[w].status)
    /\ obj' = [obj EXCEPT ![w].sale = Assigned(w)]
    /\ Goto(w, "sup_hook")
    /\ UNCHANGED <<db, today, req, pre, delta, nOps>>

SupHookReadOld(w) ==
    /\ pc[w] = "sup_hook"
    /\ HookReadsOld(obj[w].sale.supply_status, obj[w].sale.quantity_supplied)
    /\ obj' = [obj EXCEPT ![w].old_supplied = sales[req[w].id].quantity_supplied]
    /\ Goto(w, "sup_hook_old")
    /\ UNCHANGED <<db, today, req, pre, delta, nOps>>

SupHookSaveProduct(w) ==
    /\ pc[w] = "sup_hook_old"
    /\ LET d == HookDeduction(obj[w].sale.quantity_supplied, obj[w].old_supplied)
           new == obj[w].stock - d
       IN /\ d > 0
          /\ stock' = [stock EXCEPT ![req[w].product] = new]
          /\ delta' = [delta EXCEPT ![w] = @ - d]
          /\ obj' = [obj EXCEPT ![w].stock = new]
    /\ Goto(w, "sup_save")
    /\ UNCHANGED <<ledger, sales, lpos, invoices, payments, items, today, req, pre, nOps>>

SupSaveSale(w) ==
    /\ \/ pc[w] = "sup_save"
       \/ /\ pc[w] = "sup_hook"
          /\ ~HookReadsOld(obj[w].sale.supply_status, obj[w].sale.quantity_supplied)
       \/ /\ pc[w] = "sup_hook_old"
          /\ HookDeduction(obj[w].sale.quantity_supplied, obj[w].old_supplied) = 0
    /\ LET sale == [obj[w].sale EXCEPT
                      !.quantity_supplied =
                          SavedSupplied(obj[w].sale.supply_status,
                                        obj[w].sale.quantity_ordered, @)]
       IN /\ sales' = [sales EXCEPT ![req[w].id] = sale]
          /\ obj' = [obj EXCEPT ![w].sale = sale]
    /\ Respond(w, "ok")
    /\ UNCHANGED <<stock, ledger, lpos, invoices, payments, items, today, req, pre, delta,
                   nOps>>

(***************************************************************************)
(* createInvoice (InvoiceCreateSerializer, InvoiceItemSerializer)          *)
(***************************************************************************)
ItemValid(it) == ~(it.quantity <= 0) /\ ~(it.unit_price <= 0)

ItemsValid(its) == \A k \in 1 .. Len(its) : ItemValid(its[k])

StartCreateInvoice(w, total, paid, st, its) ==
    /\ Len(invoices) < MaxInvoices
    /\ Begin(w, [NullReq EXCEPT !.op = "create_invoice", !.total = total,
                                !.amount = paid, !.status = st, !.items = its],
                NullObj,
                IF ItemsValid(its) THEN "inv_insert" ELSE "inv_invalid")
    /\ UNCHANGED db

InvReject(w) ==
    /\ pc[w] = "inv_invalid"
    /\ Respond(w, "validation")
    /\ UNCHANGED <<db, today, req, obj, pre, delta, nOps>>

InvInsert(w) ==
    /\ pc[w] = "inv_insert"
    /\ invoices' = Append(invoices, [total_amount |-> req[w].total,
                                     paid_amount |-> req[w].amount,
                                     status |-> req[w].status,
                                     initial_paid |-> req[w].amount])
    /\ obj' = [obj EXCEPT ![w].id = Len(invoices) + 1]
    /\ IF req[w].items = << >> THEN Respond(w, "ok") ELSE Goto(w, "inv_items")
    /\ UNCHANGED <<stock, ledger, sales, lpos, payments, items, today, req, pre, delta,
                   nOps>>

InvItem(w) ==
    /\ pc[w] = "inv_items"
    /\ items' = Append(items, InvoiceItem(obj[w].id, req[w].items[obj[w].n + 1]))
    /\ obj' = [obj EXCEPT ![w].n = @ + 1]
    /\ IF obj[w].n + 1 = Len(req[w].items) THEN Respond(w, "ok") ELSE Goto(w, "inv_items")
    /\ UNCHANGED <<stock, ledger, sales, lpos, invoices, payments, today, req, pre, delta,
                   nOps>>

(***************************************************************************)
(* Scheduling                                                              *)
(***************************************************************************)
\* the response has been sent: the worker is free again
Finish(w) ==
    /\ pc[w] \in {"done", "aborted"}
    /\ pc' = [pc EXCEPT ![w] = "idle"]
    /\ req' = [req EXCEPT ![w] = NullReq]
    /\ obj' = [obj EXCEPT ![w] = NullObj]
    /\ pre' = [pre EXCEPT ![w] = NullSnapshot]
    /\ res' = [res EXCEPT ![w] = "none"]
    /\ delta' = [delta EXCEPT ![w] = 0]
    /\ UNCHANGED <<db, today, nOps>>

\* the request dies between two database accesses (worker killed, client gone,
\* exception): no handler opens a transaction, so nothing is rolled back
Abort(w) ==
    /\ pc[w] \notin {"idle", "done", "aborted"}
    /\ pc' = [pc EXCEPT ![w] = "aborted"]
    /\ res' = [res EXCEPT ![w] = "aborted"]
    /\ UNCHANGED <<db, today, req, obj, pre, delta, nOps>>

Tick ==
    /\ today < MaxDay
    /\ \A w \in Workers : pc[w] = "idle"
    /\ today' = today + 1
    /\ UNCHANGED <<db, pc, req, obj, pre, res, delta, nOps>>

Start(w) ==
    \/ \E p \in Products, q \in AdjustQtys, t \in EntryTypes : StartAdjustStock(w, p, q, t)
    \/ \E i \in 1 .. MaxInvoices, a \in Amounts : StartRecordPayment(w, i, a)
    \/ \E l \in 1 .. 1, q \in DeliveryQtys : StartUpdateDelivery(w, l, q)
    \/ \E p \in Products, qo \in SaleOrderedQtys, qs \in SaleSuppliedQtys,
          st \in SupplyStatuses : StartCreateSale(w, p, qo, qs, st)
    \/ \E s \in 1 .. MaxSales, q \in SupplyQtys, st \in SupplyStatuses :
          StartUpdateSupply(w, s, q, st)
    \/ \E s \in 1 .. MaxSales : StartUpdateSupply(w, s, 0, NoStatus)
    \/ \E total \in {OrderedQty}, c \in CreateChoices, its \in ItemLists :
          StartCreateInvoice(w, total, c.paid, c.status, its)

Step(w) ==
    \/ AdjSaveProduct(w) \/ AdjLog(w)
    \/ PayCreate(w) \/ PaySaveInvoice(w)
    \/ DlvSaveLpo(w) \/ DlvSaveProduct(w)
    \/ NewSaveProduct(w) \/ NewInsert(w) \/ NewLog(w)
    \/ SupReject(w) \/ SupSaveProduct(w) \/ SupLog(w) \/ SupAssign(w)
    \/ SupHookReadOld(w) \/ SupHookSaveProduct(w) \/ SupSaveSale(w)
    \/ InvReject(w) \/ InvInsert(w) \/ InvItem(w)
    \/ Finish(w)

\* concurrent workers
Next == \E w \in Workers : (nOps < MaxConcurrentOps /\ Start(w)) \/ Step(w)
Spec == Init /\ [][Next]_vars

\* one request at a time, each running to its response
NextSeq == (nOps < MaxOps /\ Start(1)) \/ Step(1) \/ Tick
SpecSeq == Init /\ [][NextSeq]_vars

\* one request at a time, which may die at any point
NextCrash == (nOps < MaxCrashOps /\ Start(1)) \/ Step(1) \/ Abort(1)
SpecCrash == Init /\ [][NextCrash]_vars

\* concurrent payments and deliveries, with two invoices on file
InitPar ==
    /\ stock = [p \in Products |-> OpeningStock]
    /\ ledger = << >>
    /\ sales = << >>
    /\ lpos = << [product |-> "p1", ordered_quantity |-> OrderedQty,
                  delivered_quantity |-> 0, status |-> "Pending",
                  actual_delivery |-> NoDate] >>
    /\ invoices = [i \in 1 .. MaxInvoices |->
                      [total_amount |-> OrderedQty, paid_amount |-> 0,
                       status |-> "Outstanding", initial_paid |-> 0]]
    /\ payments = << >>
    /\ items = << >>
    /\ today = 1
    /\ pc = [w \in Workers |-> "idle"]
    /\ req = [w \in Workers |-> NullReq]
    /\ obj = [w \in Workers |-> NullObj]
    /\ pre = [w \in Workers |-> NullSnapshot]
    /\ res = [w \in Workers |-> "none"]
    /\ delta = [w \in Workers |-> 0]
    /\ nOps = 0

StartPar(w) ==
    \/ \E i \in 1 .. MaxInvoices, a \in Amounts : StartRecordPayment(w, i, a)
    \/ \E l \in 1 .. 1, q \in DeliveryQtys : StartUpdateDelivery(w, l, q)

StepPar(w) ==
    \/ PayCreate(w) \/ PaySaveInvoice(w)
    \/ DlvSaveLpo(w) \/ DlvSaveProduct(w)
    \/ Finish(w)

\* a pair of overlapping requests: one request for each worker
NextPar == \E w \in Workers : (nOps < Cardinality(Workers) /\ StartPar(w)) \/ StepPar(w)
SpecPar == InitPar /\ [][NextPar]_vars

\* deliveries one at a time, with a pending and a cancelled LPO on file
InitLpo ==
    /\ stock = [p \in Products |-> OpeningStock]
    /\ ledger = << >>
    /\ sales = << >>
    /\ lpos = << [product |-> "p1", ordered_quantity |-> OrderedQty,
                  delivered_quantity |-> 0, status |-> "Pending",
                  actual_delivery |-> NoDate],
                 [product |-> "p1", ordered_quantity |-> OrderedQty,
                  delivered_quantity |-> 0, status |-> "Cancelled",
                  actual_delivery |-> NoDate] >>
    /\ invoices = << >>
    /\ payments = << >>
    /\ items = << >>
    /\ today = 1
    /\ pc = [w \in Workers |-> "idle"]
    /\ req = [w \in Workers |-> NullReq]
    /\ obj = [w \in Workers |-> NullObj]
    /\ pre = [w \in Workers |-> NullSnapshot]
    /\ res = [w \in Workers |-> "none"]
    /\ delta = [w \in Workers |-> 0]
    /\ nOps = 0

StartLpo(w) ==
    \E l \in 1 .. Len(lpos), q \in DeliveryQtys : StartUpdateDelivery(w, l, q)

StepLpo(w) == DlvSaveLpo(w) \/ DlvSaveProduct(w) \/ Finish(w)

NextLpo == (nOps < MaxOps /\ StartLpo(1)) \/ StepLpo(1) \/ Tick
SpecLpo == InitLpo /\ [][NextLpo]_vars

(***************************************************************************)
(* Properties                                                              *)
(***************************************************************************)
\* no request is between its first and its last database access
Quiet == \A w \in Workers : pc[w] \in {"idle", "done"}

Done(w, op) == pc[w] = "done" /\ req[w].op = op

\* an entry's contribution to the stock: In adds, Out subtracts
Signed(e) ==
    IF e.entry_type = "In" THEN e.quantity
    ELSE IF e.entry_type = "Out" THEN 0 - e.quantity
    ELSE 0

RECURSIVE SignedSum(_, _)
SignedSum(led, p) ==
    IF led = << >> THEN 0
    ELSE (IF Head(led).product = p THEN Signed(Head(led)) ELSE 0) + SignedSum(Tail(led), p)

RECURSIVE PaymentSum(_, _)
PaymentSum(pays, i) ==
    IF pays = << >> THEN 0
    ELSE (IF Head(pays).invoice = i THEN Head(pays).amount ELSE 0) + PaymentSum(Tail(pays), i)

Supplying == {"Supplied", "Partially Supplied"}

\* C1: whenever no request is in flight, every product's current_stock equals
\* its opening stock plus the signed sum of its StockEntry quantities.
C1_LedgerCounterConsistency ==
    Quiet => \A p \in Products : stock[p] = OpeningStock + SignedSum(ledger, p)

\* C2: an update_supply call with one of the three statuses either succeeds and
\* leaves 0 <= quantity_supplied <= quantity_ordered, or fails with
\* InsufficientStock and leaves the datastore as it was.
C2_SupplyWithinOrderOrRejected ==
    \A w \in Workers :
        (Done(w, "update_supply") /\ req[w].status \in SupplyStatuses) =>
            \/ /\ res[w] = "ok"
               /\ 0 <= sales[req[w].id].quantity_supplied
               /\ sales[req[w].id].quantity_supplied <= sales[req[w].id].quantity_ordered
            \/ /\ res[w] = "insufficient"
               /\ Snapshot = pre[w]

\* C3: every invoice's status is the function of its amounts: Paid iff
\* paid_amount >= total_amount, Outstanding iff paid_amount = 0, else Partial.
C3_InvoiceStatusIsFunctionOfAmounts ==
    \A i \in 1 .. Len(invoices) :
        LET inv == invoices[i] IN
          /\ inv.status = "Paid" <=> inv.paid_amount >= inv.total_amount
          /\ inv.status = "Outstanding" <=> inv.paid_amount = 0
          /\ inv.status = "Partial" <=>
                 (inv.paid_amount # 0 /\ inv.paid_amount < inv.total_amount)

\* C4: two concurrent update_supply calls on the same product that both loaded
\* stock S and ask for decreases D1, D2 in 1..S with D1 + D2 > S end with
\* exactly one success and one InsufficientStock failure.
C4_ExactlyOneSupplySucceeds ==
    \A w1, w2 \in Workers :
        ( /\ w1 # w2
          /\ Done(w1, "update_supply") /\ Done(w2, "update_supply")
          /\ req[w1].status \in Supplying /\ req[w2].status \in Supplying
          /\ req[w1].product = req[w2].product
          /\ pre[w1].stock[req[w1].product] = pre[w2].stock[req[w1].product]
          /\ Diff(w1) > 0 /\ Diff(w2) > 0
          /\ Diff(w1) <= pre[w1].stock[req[w1].product]
          /\ Diff(w2) <= pre[w1].stock[req[w1].product]
          /\ Diff(w1) + Diff(w2) > pre[w1].stock[req[w1].product] )
        => \/ res[w1] = "ok" /\ res[w2] = "insufficient"
           \/ res[w1] = "insufficient" /\ res[w2] = "ok"

StockOps == {"adjust_stock", "update_delivery", "create_sale", "update_supply"}

\* C5: two concurrent successful stock mutations of one product that both
\* started from stock S end with current_stock = S + d1 + d2.
C5_NoLostStockUpdate ==
    \A w1, w2 \in Workers :
        ( /\ w1 # w2
          /\ pc[w1] = "done" /\ pc[w2] = "done"
          /\ res[w1] = "ok" /\ res[w2] = "ok"
          /\ req[w1].op \in StockOps /\ req[w2].op \in StockOps
          /\ req[w1].product = req[w2].product
          /\ pre[w1].stock[req[w1].product] = pre[w2].stock[req[w1].product] )
        => stock[req[w1].product] =
               pre[w1].stock[req[w1].product] + delta[w1] + delta[w2]

\* C6: a stock mutation that dies between its steps leaves neither a changed
\* current_stock nor a ledger entry behind.
C6_FailedMutationRolledBack ==
    \A w \in Workers :
        (pc[w] = "aborted" /\ req[w].op \in StockOps) =>
            stock = pre[w].stock /\ ledger = pre[w].ledger

\* the request of worker w asks for more than the stock it loaded
AsksMoreThanStock(w) ==
    /\ req[w].op = "update_supply"
    /\ pc[w] # "idle"
    /\ Diff(w) > 0
    /\ pre[w].stock[req[w].product] < Diff(w)

\* C7 as stated: update_supply with diff > 0 and current_stock < diff fails with
\* InsufficientStock and changes nothing, whatever the status.
C7_InsufficientAlwaysRejected ==
    \A w \in Workers :
        (AsksMoreThanStock(w) /\ req[w].status \in SupplyStatuses) =>
            /\ Snapshot = pre[w]
            /\ pc[w] = "done" => res[w] = "insufficient"

\* C7 amended: update_supply with status Supplied or Partially Supplied,
\* diff > 0 and current_stock < diff fails with InsufficientStock, and at no
\* point of the call is the product, the sale or the ledger changed.
C7_InsufficientRejectedWhenSupplying ==
    \A w \in Workers :
        (AsksMoreThanStock(w) /\ req[w].status \in Supplying) =>
            /\ Snapshot = pre[w]
            /\ pc[w] \in {"sup_check", "done"}
            /\ pc[w] = "done" => res[w] = "insufficient"

C7_Witness ==
    \E w \in Workers :
        /\ AsksMoreThanStock(w) /\ req[w].status \in Supplying
        /\ pc[w] = "done" /\ res[w] = "insufficient"

\* C8: creating a sale with supply_status Supplied and quantity_ordered q > 0
\* stores quantity_supplied = q whatever the caller passed, takes exactly q off
\* current_stock and appends exactly one StockEntry(Out, q) for the product.
C8_SuppliedSaleDeductsOrdered ==
    \A w \in Workers :
        (Done(w, "create_sale") /\ req[w].status = "Supplied" /\ req[w].ordered > 0) =>
            /\ res[w] = "ok"
            /\ Len(sales) = Len(pre[w].sales) + 1
            /\ sales[Len(sales)].quantity_supplied = req[w].ordered
            /\ stock[req[w].product] = pre[w].stock[req[w].product] - req[w].ordered
            /\ ledger = Append(pre[w].ledger,
                               StockEntry(req[w].product, "Out", req[w].ordered,
                                          "Sale #", Len(sales)))

C8_Witness ==
    \E w \in Workers :
        /\ Done(w, "create_sale") /\ req[w].status = "Supplied"
        /\ req[w].ordered > 0 /\ req[w].qty # req[w].ordered
        /\ Len(ledger) = Len(pre[w].ledger) + 1

\* C9: record_payment appends one Payment of the amount and adds the amount to
\* paid_amount; between requests paid_amount is its initial value plus the sum
\* of the invoice's payments; a payment that brings paid_amount to total_amount
\* gives status Paid and remaining_balance 0.
C9_PaymentAddsToPaidAmount ==
    /\ \A w \in Workers :
          Done(w, "record_payment") =>
              LET i == req[w].id IN
                /\ payments = Append(pre[w].payments, Payment(i, req[w].amount))
                /\ invoices[i].paid_amount =
                       pre[w].invoices[i].paid_amount + req[w].amount
                /\ invoices[i].paid_amount = invoices[i].total_amount =>
                       /\ invoices[i].status = "Paid"
                       /\ remaining_balance(invoices[i]) = 0
    /\ Quiet => \A i \in 1 .. Len(invoices) :
                    invoices[i].paid_amount =
                        invoices[i].initial_paid + PaymentSum(payments, i)

C9_Witness ==
    \E w \in Workers :
        /\ Done(w, "record_payment")
        /\ Len(payments) = 2
        /\ req[w].amount > 0
        /\ pre[w].invoices[req[w].id].paid_amount > 0
        /\ invoices[req[w].id].paid_amount = invoices[req[w].id].total_amount
        /\ invoices[req[w].id].status = "Paid"

\* C10: update_delivery adds the delta to delivered_quantity and to the
\* product's current_stock, sets status Completed if the new delivered_quantity
\* >= ordered_quantity and Partial otherwise, and stamps actual_delivery with
\* today's date exactly when it makes the status Completed.
C10_DeliveryUpdatesLpoAndStock ==
    \A w \in Workers :
        Done(w, "update_delivery") =>
            LET old == pre[w].lpos[req[w].id]
                new == lpos[req[w].id]
            IN /\ res[w] = "ok"
               /\ new.delivered_quantity = old.delivered_quantity + req[w].qty
               /\ stock[old.product] = pre[w].stock[old.product] + req[w].qty
               /\ new.status = IF new.delivered_quantity >= new.ordered_quantity
                               THEN "Completed" ELSE "Partial"
               /\ new.actual_delivery = IF new.status = "Completed"
                                        THEN today ELSE old.actual_delivery

C10_Witness ==
    \E w \in Workers :
        /\ Done(w, "update_delivery")
        /\ pre[w].lpos[req[w].id].status = "Partial"
        /\ lpos[req[w].id].status = "Completed"
        /\ lpos[req[w].id].actual_delivery = today
        /\ today > 1

\* the change of product p's current_stock since worker w's request began
StockChange(w, p) == stock[p] - pre[w].stock[p]

\* the StockEntry rows appended since worker w's request began
NewEntries(w) == SubSeq(ledger, Len(pre[w].ledger) + 1, Len(ledger))

IsPrefix(s, t) == Len(s) <= Len(t) /\ SubSeq(t, 1, Len(s)) = s

\* C11: adjust_stock with quantity 0 and type Adjustment creates no StockEntry
\* and leaves current_stock unchanged.
C11_ZeroAdjustmentIsNoOp ==
    \A w \in Workers :
        (Done(w, "adjust_stock") /\ req[w].qty = 0 /\ req[w].etype = "Adjustment") =>
            /\ stock = pre[w].stock
            /\ ledger = pre[w].ledger

\* C12: a completed stock operation that changed current_stock by a non-zero
\* amount appended exactly one StockEntry for the product, and one that left
\* current_stock as it was appended none.
C12_OneEntryPerDelta ==
    \A w \in Workers :
        (pc[w] = "done" /\ res[w] = "ok" /\ req[w].op \in StockOps) =>
            /\ IsPrefix(pre[w].ledger, ledger)
            /\ Len(NewEntries(w)) =
                   (IF StockChange(w, req[w].product) # 0 THEN 1 ELSE 0)
            /\ \A k \in 1 .. Len(NewEntries(w)) :
                   NewEntries(w)[k].product = req[w].product

\* C13: every stored sale's supply_status matches its quantities: Supplied
\* implies quantity_supplied = quantity_ordered, Not Supplied implies
\* quantity_supplied = 0.
C13_StatusMatchesQuantities ==
    \A s \in 1 .. Len(sales) :
        /\ sales[s].supply_status = "Supplied" =>
               sales[s].quantity_supplied = sales[s].quantity_ordered
        /\ sales[s].supply_status = "Not Supplied" =>
               sales[s].quantity_supplied = 0

C13_Witness ==
    /\ \E w \in Workers :
          /\ Done(w, "create_sale") /\ res[w] = "ok"
          /\ req[w].status = "Not Supplied" /\ req[w].qty > 0
          /\ sales[Len(sales)].quantity_supplied = 0
    /\ \E s \in 1 .. Len(sales) :
          /\ sales[s].supply_status = "Supplied"
          /\ sales[s].quantity_supplied > 0

\* C14: the stock ledger is append-only: in every step the ledger before the
\* step is a prefix of the ledger after it.
C14_LedgerAppendOnly == [][IsPrefix(ledger, ledger')]_vars

C14_Witness ==
    /\ Len(ledger) = 2
    /\ \E w \in Workers : pc[w] = "done" /\ Len(pre[w].ledger) = 1

\* C15: every LPO has 0 <= delivered_quantity <= ordered_quantity.
C15_DeliveredWithinOrdered ==
    \A l \in 1 .. Len(lpos) :
        /\ 0 <= lpos[l].delivered_quantity
        /\ lpos[l].delivered_quantity <= lpos[l].ordered_quantity

\* C16: a successful update_supply with status Supplied or Partially Supplied
\* and diff # 0 changes current_stock by exactly -diff over the whole call and
\* appends exactly one StockEntry, with the note 'Supply update for Sale #'.
C16_SupplyUpdateDeductsDiffOnce ==
    \A w \in Workers :
        ( /\ Done(w, "update_supply") /\ res[w] = "ok"
          /\ req[w].status \in Supplying
          /\ Diff(w) # 0 )
        => /\ StockChange(w, req[w].product) = 0 - Diff(w)
           /\ ledger = Append(pre[w].ledger,
                              StockEntry(req[w].product, "Out", Diff(w),
                                         "Supply update for Sale #", req[w].id))

\* C17: a successful update_supply that found current_stock >= 0 leaves
\* current_stock >= 0.
C17_SupplyNeverOverdraws ==
    \A w \in Workers :
        ( /\ Done(w, "update_supply") /\ res[w] = "ok"
          /\ pre[w].stock[req[w].product] >= 0 )
        => stock[req[w].product] >= 0

\* C18: after a successful update_supply the sale has the new status, and
\* quantity_supplied is the new quantity if Partially Supplied, quantity_ordered
\* if Supplied and 0 if Not Supplied.
C18_SupplyUpdatePersistsSale ==
    \A w \in Workers :
        (Done(w, "update_supply") /\ res[w] = "ok") =>
            LET sale == sales[req[w].id] IN
              /\ sale.supply_status = req[w].status
              /\ sale.quantity_supplied =
                     (IF req[w].status = "Partially Supplied" THEN req[w].qty
                      ELSE IF req[w].status = "Supplied" THEN sale.quantity_ordered
                      ELSE 0)
              /\ sale.quantity_ordered = pre[w].sales[req[w].id].quantity_ordered

C18_Witness ==
    \E w \in Workers :
        /\ Done(w, "update_supply") /\ res[w] = "ok"
        /\ req[w].status = "Partially Supplied"
        /\ req[w].qty = 1
        /\ pre[w].sales[req[w].id].quantity_ordered = OrderedQty
        /\ sales[req[w].id].quantity_supplied = 1

\* C19: update_supply with status Not Supplied on a sale whose
\* quantity_supplied is > 0 resets quantity_supplied to 0 and changes neither
\* current_stock nor the ledger.
C19_RegressionKeepsStock ==
    \A w \in Workers :
        ( /\ Done(w, "update_supply")
          /\ req[w].status = "Not Supplied"
          /\ pre[w].sales[req[w].id].quantity_supplied > 0 )
        => /\ res[w] = "ok"
           /\ sales[req[w].id].quantity_supplied = 0
           /\ stock = pre[w].stock
           /\ ledger = pre[w].ledger

C19_Witness ==
    \E w \in Workers :
        /\ Done(w, "update_supply") /\ res[w] = "ok"
        /\ req[w].status = "Not Supplied"
        /\ pre[w].sales[req[w].id].quantity_supplied > 0
        /\ req[w].qty # pre[w].sales[req[w].id].quantity_supplied
        /\ stock[req[w].product] < OpeningStock

\* C20: creating a sale with status Partially Supplied and quantity_supplied
\* k > 0 takes exactly k off current_stock and appends exactly one
\* StockEntry(Out, k); with k = 0 it changes neither the stock nor the ledger.
C20_PartialSaleDeductsSupplied ==
    \A w \in Workers :
        (Done(w, "create_sale") /\ req[w].status = "Partially Supplied") =>
            /\ res[w] = "ok"
            /\ req[w].qty > 0 =>
                   /\ StockChange(w, req[w].product) = 0 - req[w].qty
                   /\ ledger = Append(pre[w].ledger,
                                      StockEntry(req[w].product, "Out", req[w].qty,
                                                 "Sale #", Len(sales)))
            /\ req[w].qty = 0 =>
                   /\ stock = pre[w].stock
                   /\ ledger = pre[w].ledger

C20_Witness ==
    \E w \in Workers :
        /\ Done(w, "create_sale") /\ req[w].status = "Partially Supplied"
        /\ req[w].qty > 0 /\ req[w].qty < req[w].ordered
        /\ Len(ledger) = Len(pre[w].ledger) + 1
        /\ stock[req[w].product] = pre[w].stock[req[w].product] - req[w].qty

\* C21: creating a sale with status Not Supplied stores quantity_supplied 0
\* whatever the caller passed and changes neither current_stock nor the ledger.
C21_NotSuppliedSaleKeepsStock ==
    \A w \in Workers :
        (Done(w, "create_sale") /\ req[w].status = "Not Supplied") =>
            /\ res[w] = "ok"
            /\ Len(sales) = Len(pre[w].sales) + 1
            /\ sales[Len(sales)].supply_status = "Not Supplied"
            /\ sales[Len(sales)].quantity_supplied = 0
            /\ stock = pre[w].stock
            /\ ledger = pre[w].ledger

C21_Witness ==
    \E w \in Workers :
        /\ Done(w, "create_sale") /\ req[w].status = "Not Supplied"
        /\ req[w].qty = MaxQty
        /\ Len(sales) = Len(pre[w].sales) + 1

\* C22: adjust_stock changes current_stock by +quantity for In, -quantity for
\* Out and not at all for Adjustment, appends exactly one StockEntry with the
\* given type and quantity in all three cases, and never rejects, also when the
\* result is below zero.
C22_AdjustStockByType ==
    \A w \in Workers :
        Done(w, "adjust_stock") =>
            /\ res[w] = "ok"
            /\ StockChange(w, req[w].product) =
                   (IF req[w].etype = "In" THEN req[w].qty
                    ELSE IF req[w].etype = "Out" THEN 0 - req[w].qty
                    ELSE 0)
            /\ \A p \in Products \ {req[w].product} : StockChange(w, p) = 0
            /\ ledger = Append(pre[w].ledger,
                               StockEntry(req[w].product, req[w].etype, req[w].qty,
                                          "manual", 0))

C22_Witness ==
    \E w \in Workers :
        /\ Done(w, "adjust_stock") /\ res[w] = "ok"
        /\ req[w].etype = "Out" /\ req[w].qty > 0
        /\ stock[req[w].product] < 0

\* C23: every StockEntry has a strictly positive quantity.
C23_EntryQuantitiesPositive ==
    \A k \in 1 .. Len(ledger) : ledger[k].quantity > 0

\* the delivery of worker w takes delivered_quantity above ordered_quantity
OverDelivers(w) ==
    /\ req[w].op = "update_delivery"
    /\ pre[w].lpos[req[w].id].delivered_quantity + req[w].qty >
           pre[w].lpos[req[w].id].ordered_quantity

\* C24: a delivery that takes delivered_quantity above ordered_quantity is
\* accepted without error, makes the status Completed and adds the full delta
\* to current_stock.
C24_OverDeliveryAccepted ==
    \A w \in Workers :
        (pc[w] = "done" /\ OverDelivers(w)) =>
            /\ res[w] = "ok"
            /\ lpos[req[w].id].status = "Completed"
            /\ lpos[req[w].id].delivered_quantity =
                   pre[w].lpos[req[w].id].delivered_quantity + req[w].qty
            /\ lpos[req[w].id].delivered_quantity > lpos[req[w].id].ordered_quantity
            /\ StockChange(w, req[w].product) = req[w].qty

C24_Witness ==
    \E w \in Workers :
        /\ pc[w] = "done" /\ OverDelivers(w)
        /\ pre[w].lpos[req[w].id].delivered_quantity > 0
        /\ pre[w].lpos[req[w].id].status = "Partial"
        /\ lpos[req[w].id].status = "Completed"

\* the payment of worker w is larger than the remaining balance it found
Overpays(w) ==
    /\ req[w].op = "record_payment"
    /\ req[w].amount > remaining_balance(pre[w].invoices[req[w].id])

\* C25: a payment larger than the remaining balance is accepted without
\* error: the invoice ends Paid with paid_amount > total_amount and a negative
\* remaining_balance.
C25_OverpaymentAccepted ==
    \A w \in Workers :
        (pc[w] = "done" /\ Overpays(w)) =>
            /\ res[w] = "ok"
            /\ invoices[req[w].id].status = "Paid"
            /\ invoices[req[w].id].paid_amount > invoices[req[w].id].total_amount
            /\ remaining_balance(invoices[req[w].id]) < 0
            /\ remaining_balance(invoices[req[w].id]) =
                   invoices[req[w].id].total_amount - invoices[req[w].id].paid_amount

C25_Witness ==
    \E w \in Workers :
        /\ pc[w] = "done" /\ Overpays(w)
        /\ pre[w].invoices[req[w].id].status = "Partial"
        /\ remaining_balance(pre[w].invoices[req[w].id]) > 0
        /\ remaining_balance(invoices[req[w].id]) < 0

\* C26: record_payment changes only the target invoice and the payment list:
\* products, ledger, sales, LPOs, invoice items and every other invoice are as
\* the request found them.
C26_PaymentTouchesOnlyItsInvoice ==
    \A w \in Workers :
        Done(w, "record_payment") =>
            /\ stock = pre[w].stock
            /\ ledger = pre[w].ledger
            /\ sales = pre[w].sales
            /\ lpos = pre[w].lpos
            /\ items = pre[w].items
            /\ Len(invoices) = Len(pre[w].invoices)
            /\ \A j \in 1 .. Len(invoices) :
                   j # req[w].id => invoices[j] = pre[w].invoices[j]
            /\ IsPrefix(pre[w].payments, payments)

C26_Witness ==
    \E w \in Workers :
        /\ Done(w, "record_payment")
        /\ req[w].amount > 0
        /\ Len(invoices) = 2
        /\ invoices[req[w].id] # pre[w].invoices[req[w].id]

\* the invoice row a payment of amount a leaves, applied to row inv
PaidRow(inv, a) ==
    [inv EXCEPT !.paid_amount = inv.paid_amount + a,
                !.status = IF inv.paid_amount + a >= inv.total_amount
                           THEN "Paid" ELSE "Partial"]

\* the LPO row a delivery of q leaves, applied to row lpo on day d
DeliveredRow(lpo, q, d) ==
    [lpo EXCEPT !.delivered_quantity = lpo.delivered_quantity + q,
                !.status = IF lpo.delivered_quantity + q >= lpo.ordered_quantity
                           THEN "Completed" ELSE "Partial",
                !.actual_delivery = IF lpo.delivered_quantity + q >= lpo.ordered_quantity
                                    THEN d ELSE lpo.actual_delivery]

\* w1 pays an invoice while w2 pays another invoice or records a delivery
OnDifferentEntities(w1, w2) ==
    /\ w1 # w2
    /\ req[w1].op = "record_payment"
    /\ \/ req[w2].op = "record_payment" /\ req[w2].id # req[w1].id
       \/ req[w2].op = "update_delivery"

\* C27: a record_payment interleaved in any way with a record_payment on
\* another invoice or with an update_delivery ends in the state the two leave
\* when run one after the other: each row is the one its own operation makes
\* of the row it found, everything else is untouched, and a request in flight
\* always has its next step enabled.
C27_DifferentEntitiesIndependent ==
    /\ \A w \in Workers : pc[w] \notin {"idle", "done"} => ENABLED StepPar(w)
    /\ \A w1, w2 \in Workers :
          (OnDifferentEntities(w1, w2) /\ pc[w1] = "done" /\ pc[w2] = "done") =>
              /\ res[w1] = "ok" /\ res[w2] = "ok"
              /\ invoices[req[w1].id] =
                     PaidRow(pre[w1].invoices[req[w1].id], req[w1].amount)
              /\ req[w2].op = "record_payment" =>
                     /\ invoices[req[w2].id] =
                            PaidRow(pre[w2].invoices[req[w2].id], req[w2].amount)
                     /\ lpos = pre[w1].lpos /\ stock = pre[w1].stock
                     /\ {payments[Len(payments) - 1], payments[Len(payments)]} =
                            {Payment(req[w1].id, req[w1].amount),
                             Payment(req[w2].id, req[w2].amount)}
              /\ req[w2].op = "update_delivery" =>
                     /\ lpos[req[w2].id] =
                            DeliveredRow(pre[w2].lpos[req[w2].id], req[w2].qty, today)
                     /\ stock[req[w2].product] =
                            pre[w2].stock[req[w2].product] + req[w2].qty
                     /\ payments[Len(payments)] = Payment(req[w1].id, req[w1].amount)
              /\ \A j \in 1 .. Len(invoices) :
                     (j # req[w1].id /\ ~(req[w2].op = "record_payment" /\ j = req[w2].id))
                         => invoices[j] = pre[w1].invoices[j]
              /\ \A i \in 1 .. Len(invoices) :
                     invoices[i].paid_amount =
                         invoices[i].initial_paid + PaymentSum(payments, i)

C27_Witness ==
    \E w1, w2 \in Workers :
        /\ OnDifferentEntities(w1, w2) /\ pc[w1] = "done" /\ pc[w2] = "done"
        /\ req[w2].op = "record_payment"
        /\ req[w1].amount > 0 /\ req[w2].amount > 0
        /\ Len(pre[w2].payments) = Len(pre[w1].payments) + 1
        /\ pre[w2].invoices[req[w1].id] = pre[w1].invoices[req[w1].id]

\* C28: createInvoice with an item whose quantity or unit_price is <= 0 is
\* rejected with a validation error and creates no Invoice and no InvoiceItem;
\* every InvoiceItem that exists has subtotal = quantity x unit_price.
C28_InvalidItemsRejectedSubtotalsRight ==
    /\ \A w \in Workers :
          ( /\ Done(w, "create_invoice")
            /\ \E k \in 1 .. Len(req[w].items) :
                   req[w].items[k].quantity <= 0 \/ req[w].items[k].unit_price <= 0 )
          => /\ res[w] = "validation"
             /\ invoices = pre[w].invoices
             /\ items = pre[w].items
    /\ \A k \in 1 .. Len(items) :
          items[k].subtotal = items[k].quantity * items[k].unit_price

\* C29: every completed sale creation and every successful update_supply
\* takes off current_stock exactly what it adds to the sale's
\* quantity_supplied, so that the net quantity deducted for a sale equals its
\* quantity_supplied.
C29_SaleStockConservation ==
    \A w \in Workers :
        /\ (Done(w, "create_sale") /\ res[w] = "ok") =>
               0 - StockChange(w, req[w].product) = sales[Len(sales)].quantity_supplied
        /\ (Done(w, "update_supply") /\ res[w] = "ok") =>
               0 - StockChange(w, req[w].product) =
                   sales[req[w].id].quantity_supplied
                       - pre[w].sales[req[w].id].quantity_supplied

\* C30: two concurrent record_payment calls on one invoice that both read
\* the same paid_amount end with paid_amount = initial + a1 + a2, with both
\* Payment rows counted in it and with the status of that amount.
C30_NoLostPayment ==
    \A w1, w2 \in Workers :
        ( /\ w1 # w2
          /\ Done(w1, "record_payment") /\ Done(w2, "record_payment")
          /\ req[w1].id = req[w2].id
          /\ pre[w1].invoices[req[w1].id].paid_amount =
                 pre[w2].invoices[req[w1].id].paid_amount )
        => LET i == req[w1].id
               final == pre[w1].invoices[i].paid_amount + req[w1].amount + req[w2].amount
           IN /\ invoices[i].paid_amount = final
              /\ invoices[i].paid_amount = invoices[i].initial_paid + PaymentSum(payments, i)
              /\ invoices[i].status =
                     (IF final >= invoices[i].total_amount THEN "Paid" ELSE "Partial")

\* C31: a record_payment of a positive amount leaves the invoice Partial or
\* Paid, never Outstanding, and leaves an invoice that was Paid still Paid.
C31_StatusNeverRegresses ==
    \A w \in Workers :
        (Done(w, "record_payment") /\ req[w].amount > 0) =>
            /\ invoices[req[w].id].status \in {"Partial", "Paid"}
            /\ pre[w].invoices[req[w].id].status = "Paid" =>
                   invoices[req[w].id].status = "Paid"

\* C32: update_delivery leaves a Cancelled LPO Cancelled and adds no stock for
\* it, and with a non-negative delta it leaves a Completed LPO Completed.
C32_LpoStatusOnlyForward ==
    \A w \in Workers :
        Done(w, "update_delivery") =>
            LET old == pre[w].lpos[req[w].id]
                new == lpos[req[w].id]
            IN /\ old.status = "Cancelled" =>
                      /\ new.status = "Cancelled"
                      /\ stock = pre[w].stock
               /\ (req[w].qty >= 0 /\ old.status = "Completed") =>
                      new.status = "Completed"

\* C33: update_supply without a supply_status is rejected with a validation
\* error before any mutation: at no point of the call is the sale, the
\* product's current_stock or the ledger changed.
C33_MissingStatusRejected ==
    \A w \in Workers :
        (req[w].op = "update_supply" /\ req[w].status = NoStatus /\ pc[w] # "idle") =>
            /\ pc[w] \in {"sup_check", "done"}
            /\ pc[w] = "done" => res[w] = "validation"
            /\ sales = pre[w].sales
            /\ stock = pre[w].stock
            /\ ledger = pre[w].ledger

C33_Witness ==
    \E w \in Workers :
        /\ Done(w, "update_supply") /\ req[w].status = NoStatus
        /\ res[w] = "validation"
        /\ sales[req[w].id].quantity_supplied > 0
        /\ sales[req[w].id].supply_status = "Partially Supplied"

====
